---- MODULE Spec2Model ----
(***************************************************************************)
(* Model of src/main.rs: the announcement crawler.  main() reads a forest  *)
(* of spend records, flattens it, builds the announcement index, and for   *)
(* every record tagged "settlement_payments" prints the set returned by    *)
(* coins_asserted_by.                                                       *)
(*                                                                         *)
(* Representation.                                                         *)
(*  - Bytes32 coin identifiers and puzzle hashes are natural numbers.      *)
(*  - Bytes (a message) is a sequence of numbers.                          *)
(*  - Option<T> is a sequence of length 0 (None) or 1 (Some).              *)
(*  - A SHA-256 digest is represented by the byte string that was hashed   *)
(*    (source identifier, then the message, no separator): the digest of   *)
(*    two inputs is equal exactly when the inputs are equal.               *)
(*  - A HashMap is a function whose DOMAIN is the set of keys.             *)
(*  - The Item fields `ty` and `spend` are never read and are left out.    *)
(***************************************************************************)
EXTENDS Naturals, Sequences, FiniteSets

VARIABLES
    input,                          \* the parsed content of block.json
    items,                          \* main's `items` vector
    pc,                             \* position of main
    iter,                           \* items still to be yielded by the running for loop; Head(iter) is the current item
    ci,                             \* index of the next condition of the current item
    create_coin_announcements,
    create_puzzle_announcements,
    assert_puzzle_announcements,
    assert_coin_announcements,
    coins,                          \* coins_asserted_by: the result set
    stack,                          \* coins_asserted_by: the work stack (top is the last element)
    pending,                        \* coins_asserted_by: direct successors the inner for loop has not yet yielded
    popped,                         \* history: the coins popped so far by the running call, in order
    out                             \* the lines printed so far, as <<coin, set>>

vars == <<input, items, pc, iter, ci, create_coin_announcements,
          create_puzzle_announcements, assert_puzzle_announcements,
          assert_coin_announcements, coins, stack, pending, popped, out>>

indexVars == <<create_coin_announcements, create_puzzle_announcements,
               assert_puzzle_announcements, assert_coin_announcements>>

reachVars == <<coins, stack, pending, popped>>

\* ------------------------------------------------------------------------
\* Bounds of the explored inputs
\* ------------------------------------------------------------------------
MaxCoin == 3        \* records (and coin identifiers) of a generated forest or graph
MaxEdges == 3       \* assertion conditions of a generated announcement graph
MaxConds == 3       \* conditions of a generated condition list

\* ------------------------------------------------------------------------
\* Data
\* ------------------------------------------------------------------------
MapSeq(s, Op(_)) == [k \in 1..Len(s) |-> Op(s[k])]

Range(s) == {s[k] : k \in 1..Len(s)}

RECURSIVE Flat(_)
Flat(ss) == IF ss = <<>> THEN <<>> ELSE Head(ss) \o Flat(Tail(ss))

RECURSIVE SetToSeq(_)
SetToSeq(S) ==
    IF S = {} THEN <<>>
    ELSE LET m == CHOOSE x \in S : \A y \in S : x <= y
         IN  <<m>> \o SetToSeq(S \ {m})

None == <<>>

Some(x) == <<x>>

Item(coin, ph, tags, conds, kids) ==
    [coin_id |-> coin, puzzle_hash |-> ph, tags |-> tags,
     conditions |-> conds, children |-> kids]

Condition(op, vs) == [opcode |-> op, vars |-> vs]

CreateCoinAnnouncement(coin, message, id) ==
    [coin_id |-> coin, message |-> message, announcement_id |-> id]

CreatePuzzleAnnouncement(coin, ph, message, id) ==
    [coin_id |-> coin, puzzle_hash |-> ph, message |-> message, announcement_id |-> id]

AssertPuzzleAnnouncement(coin, id) == [coin_id |-> coin, announcement_id |-> id]

AssertCoinAnnouncement(coin, id) == [coin_id |-> coin, announcement_id |-> id]

\* hasher.update(source); hasher.update(&message); hasher.finalize_fixed()
Sha256(source, message) == <<source>> \o message

\* faulty variant: an existing entry is kept (entry().or_insert)
MapInsertKeepFirst(m, k, v) ==
    [x \in DOMAIN m \cup {k} |-> IF x \in DOMAIN m THEN m[x] ELSE v]

\* HashMap::insert: the value under `k` is replaced, every other key is kept
MapInsert(m, k, v) ==
    [x \in DOMAIN m \cup {k} |-> IF x = k THEN v ELSE m[x]]

Announcements ==
    [create_coin |-> create_coin_announcements,
     create_puzzle |-> create_puzzle_announcements,
     assert_puzzle |-> assert_puzzle_announcements,
     assert_coin |-> assert_coin_announcements]

\* faulty variant: any non-empty tag list matches
HasTagAny(item) ==
    LET tags == IF item.tags = None THEN <<>> ELSE item.tags[1]
    IN  tags # <<>>

\* item.tags.unwrap_or_default().contains(&"settlement_payments".to_string())
HasTag(item) ==
    LET tags == IF item.tags = None THEN <<>> ELSE item.tags[1]
    IN  \E k \in 1..Len(tags) : tags[k] = "settlement_payments"

\* faulty variant: the `created.coin_id != coin_id` tests are left out
coins_directly_asserted_by_nofilter(coin_id, announcements) ==
    {announcements.assert_coin[k].coin_id :
        k \in {k \in 1..Len(announcements.assert_coin) :
                 \E id \in DOMAIN announcements.create_coin :
                    announcements.create_coin[id].announcement_id =
                        announcements.assert_coin[k].announcement_id}}
    \cup
    {announcements.assert_puzzle[k].coin_id :
        k \in {k \in 1..Len(announcements.assert_puzzle) :
                 \E id \in DOMAIN announcements.create_puzzle :
                    announcements.create_puzzle[id].announcement_id =
                        announcements.assert_puzzle[k].announcement_id}}

\* the asserting coins of every assertion whose identifier is that of a
\* creation (coin-scoped, then puzzle-scoped) sourced from coin_id
coins_directly_asserted_by(coin_id, announcements) ==
    {announcements.assert_coin[k].coin_id :
        k \in {k \in 1..Len(announcements.assert_coin) :
                 \E id \in DOMAIN announcements.create_coin :
                    /\ announcements.create_coin[id].coin_id = coin_id
                    /\ announcements.create_coin[id].announcement_id =
                        announcements.assert_coin[k].announcement_id}}
    \cup
    {announcements.assert_puzzle[k].coin_id :
        k \in {k \in 1..Len(announcements.assert_puzzle) :
                 \E id \in DOMAIN announcements.create_puzzle :
                    /\ announcements.create_puzzle[id].coin_id = coin_id
                    /\ announcements.create_puzzle[id].announcement_id =
                        announcements.assert_puzzle[k].announcement_id}}

\* ------------------------------------------------------------------------
\* Inputs: the forests main is run on
\* ------------------------------------------------------------------------
Msg1 == <<1>>

Msg2 == <<2>>

Settlement == Some(<<"settlement_payments">>)

CCA(vs) == Condition("CREATE_COIN_ANNOUNCEMENT", vs)

CPA(vs) == Condition("CREATE_PUZZLE_ANNOUNCEMENT", vs)

ACA(vs) == Condition("ASSERT_COIN_ANNOUNCEMENT", vs)

APA(vs) == Condition("ASSERT_PUZZLE_ANNOUNCEMENT", vs)

\* Forests of every shape over n <= MaxCoin records: record i is a root or the
\* child of an earlier record; every record has one of three tag lists, and at
\* most one record carries an announcement condition with an empty payload.
RECURSIVE Tree(_, _, _, _, _)
Tree(i, n, parent, tagOf, badAt) ==
    LET kids == SetToSeq({j \in 1..n : parent[j] = i})
    IN  Item(i, Some(10 + i), tagOf[i],
             IF badAt = i THEN <<CCA(<<>>)>> ELSE <<>>,
             [k \in 1..Len(kids) |-> Tree(kids[k], n, parent, tagOf, badAt)])

ShapeTags == {None, Some(<<"other">>), Some(<<"other", "settlement_payments">>)}

ShapeForests ==
    UNION {
      { LET roots == SetToSeq({j \in 1..n : parent[j] = 0})
        IN  [k \in 1..Len(roots) |-> Tree(roots[k], n, parent, tagOf, badAt)] :
          parent \in {p \in [1..n -> 0..n] : \A j \in 1..n : p[j] < j},
          tagOf \in [1..n -> ShapeTags],
          badAt \in 0..n }
      : n \in 0..MaxCoin }

\* Announcement graphs: MaxCoin root records, each creating the coin
\* announcement Msg1; record i asserts the announcement of record j for every
\* edge <<j, i>> of a chosen edge set; one record is tagged.
GraphForests ==
    { [i \in 1..MaxCoin |->
         Item(i, Some(10 + i), IF i = start THEN Settlement ELSE None,
              <<CCA(<<Msg1>>)>> \o
                 MapSeq(SetToSeq({j \in 1..MaxCoin : <<j, i>> \in E}),
                        LAMBDA j : ACA(<<Sha256(j, Msg1)>>)),
              <<>>)] :
        E \in {F \in SUBSET ((1..MaxCoin) \X (1..MaxCoin)) : Cardinality(F) <= MaxEdges},
        start \in 1..MaxCoin }

\* Condition lists: three tagged root records, the first two sharing puzzle
\* hash 9 and the third without a puzzle hash; `slots` places conditions on
\* them in scan order.
CondsOf(slots, i) ==
    LET idx == SetToSeq({k \in 1..Len(slots) : slots[k][1] = i})
    IN  [k \in 1..Len(idx) |-> slots[idx[k]][2]]

SlotForest(slots) ==
    <<Item(1, Some(9), Settlement, CondsOf(slots, 1), <<>>),
      Item(2, Some(9), Settlement, CondsOf(slots, 2), <<>>),
      Item(3, None, Settlement, CondsOf(slots, 3), <<>>)>>

SlotSeqs(conds, maxLen) ==
    UNION { {s \in [1..n -> (1..3) \X conds] :
                \A k \in 1..n : k < n => s[k][1] <= s[k + 1][1]}
            : n \in 0..maxLen }

GoodConds ==
    {CCA(<<Msg1>>), CPA(<<Msg1>>), ACA(<<Sha256(1, Msg1)>>),
     APA(<<Sha256(9, Msg1)>>), Condition("RESERVE_FEE", <<>>)}

OddConds ==
    {CCA(<<>>), CPA(<<>>), ACA(<<>>), APA(<<>>),
     CCA(<<Msg2, Msg1>>), ACA(<<Sha256(1, Msg2), Sha256(1, Msg1)>>),
     Condition("AGG_SIG_ME", <<>>)}

CondForests ==
    {SlotForest(s) : s \in SlotSeqs(GoodConds, MaxConds)}
    \cup {SlotForest(s) : s \in SlotSeqs(OddConds, 2)}

Inputs == ShapeForests \cup GraphForests \cup CondForests

\* ------------------------------------------------------------------------
\* main
\* ------------------------------------------------------------------------
Init ==
    /\ input \in Inputs
    /\ items = input
    /\ pc = "flatten"
    /\ iter = input
    /\ ci = 1
    /\ create_coin_announcements = <<>>
    /\ create_puzzle_announcements = <<>>
    /\ assert_puzzle_announcements = <<>>
    /\ assert_coin_announcements = <<>>
    /\ coins = {}
    /\ stack = <<>>
    /\ pending = {}
    /\ popped = <<>>
    /\ out = <<>>

\* for item in items.clone() { items.extend(item.children); }
FlattenItem ==
    /\ pc = "flatten"
    /\ iter # <<>>
    /\ items' = items \o Head(iter).children
    /\ iter' = Tail(iter)
    /\ UNCHANGED <<input, pc, ci, indexVars, reachVars, out>>

\* the first loop ends; the second starts on a fresh clone of items
FlattenDone ==
    /\ pc = "flatten"
    /\ iter = <<>>
    /\ pc' = "index"
    /\ iter' = items
    /\ ci' = 1
    /\ UNCHANGED <<input, items, indexVars, reachVars, out>>

Scanning == pc = "index" /\ iter # <<>> /\ ci <= Len(Head(iter).conditions)

IsAnnouncement(condition) ==
    condition.opcode \in {"CREATE_COIN_ANNOUNCEMENT", "CREATE_PUZZLE_ANNOUNCEMENT",
                          "ASSERT_COIN_ANNOUNCEMENT", "ASSERT_PUZZLE_ANNOUNCEMENT"}

\* vars[0] on an empty vector and unwrap() on None panic
Panics(item, condition) ==
    /\ IsAnnouncement(condition)
    /\ \/ condition.vars = <<>>
       \/ condition.opcode = "CREATE_PUZZLE_ANNOUNCEMENT" /\ item.puzzle_hash = None

\* faulty variant: a malformed condition is skipped
ScanSkipMalformed ==
    /\ Scanning
    /\ Panics(Head(iter), Head(iter).conditions[ci])
    /\ ci' = ci + 1
    /\ UNCHANGED <<input, items, pc, iter, indexVars, reachVars, out>>

\* the process panics: main never returns and nothing more is printed
ScanPanic ==
    /\ Scanning
    /\ Panics(Head(iter), Head(iter).conditions[ci])
    /\ pc' = "failed"
    /\ UNCHANGED <<input, items, iter, ci, indexVars, reachVars, out>>

ScanCreateCoinAnnouncement ==
    /\ Scanning
    /\ LET item == Head(iter)
           condition == item.conditions[ci]
       IN  /\ condition.opcode = "CREATE_COIN_ANNOUNCEMENT"
           /\ ~Panics(item, condition)
           /\ LET message == condition.vars[1]
                  announcement_id == Sha256(item.coin_id, message)
              IN  create_coin_announcements' =
                     MapInsert(create_coin_announcements, announcement_id,
                               CreateCoinAnnouncement(item.coin_id, message, announcement_id))
    /\ ci' = ci + 1
    /\ UNCHANGED <<input, items, pc, iter, create_puzzle_announcements,
                   assert_puzzle_announcements, assert_coin_announcements, reachVars, out>>

ScanCreatePuzzleAnnouncement ==
    /\ Scanning
    /\ LET item == Head(iter)
           condition == item.conditions[ci]
       IN  /\ condition.opcode = "CREATE_PUZZLE_ANNOUNCEMENT"
           /\ ~Panics(item, condition)
           /\ LET message == condition.vars[1]
                  announcement_id == Sha256(item.puzzle_hash[1], message)
              IN  create_puzzle_announcements' =
                     MapInsert(create_puzzle_announcements, announcement_id,
                               CreatePuzzleAnnouncement(item.coin_id, item.puzzle_hash[1],
                                                        message, announcement_id))
    /\ ci' = ci + 1
    /\ UNCHANGED <<input, items, pc, iter, create_coin_announcements,
                   assert_puzzle_announcements, assert_coin_announcements, reachVars, out>>

ScanAssertCoinAnnouncement ==
    /\ Scanning
    /\ LET item == Head(iter)
           condition == item.conditions[ci]
       IN  /\ condition.opcode = "ASSERT_COIN_ANNOUNCEMENT"
           /\ ~Panics(item, condition)
           /\ assert_coin_announcements' =
                 Append(assert_coin_announcements,
                        AssertCoinAnnouncement(item.coin_id, condition.vars[1]))
    /\ ci' = ci + 1
    /\ UNCHANGED <<input, items, pc, iter, create_coin_announcements,
                   create_puzzle_announcements, assert_puzzle_announcements, reachVars, out>>

ScanAssertPuzzleAnnouncement ==
    /\ Scanning
    /\ LET item == Head(iter)
           condition == item.conditions[ci]
       IN  /\ condition.opcode = "ASSERT_PUZZLE_ANNOUNCEMENT"
           /\ ~Panics(item, condition)
           /\ assert_puzzle_announcements' =
                 Append(assert_puzzle_announcements,
                        AssertPuzzleAnnouncement(item.coin_id, condition.vars[1]))
    /\ ci' = ci + 1
    /\ UNCHANGED <<input, items, pc, iter, create_coin_announcements,
                   create_puzzle_announcements, assert_coin_announcements, reachVars, out>>

\* _ => {}
ScanOther ==
    /\ Scanning
    /\ ~IsAnnouncement(Head(iter).conditions[ci])
    /\ ci' = ci + 1
    /\ UNCHANGED <<input, items, pc, iter, indexVars, reachVars, out>>

\* the inner loop ends; the outer loop yields its next item
ItemDone ==
    /\ pc = "index"
    /\ iter # <<>>
    /\ ci > Len(Head(iter).conditions)
    /\ iter' = Tail(iter)
    /\ ci' = 1
    /\ UNCHANGED <<input, items, pc, indexVars, reachVars, out>>

\* the second loop ends; `announcements` is built and the third loop starts on items
IndexDone ==
    /\ pc = "index"
    /\ iter = <<>>
    /\ pc' = "select"
    /\ iter' = items
    /\ UNCHANGED <<input, items, ci, indexVars, reachVars, out>>

SelectSkip ==
    /\ pc = "select"
    /\ iter # <<>>
    /\ ~HasTag(Head(iter))
    /\ iter' = Tail(iter)
    /\ UNCHANGED <<input, items, pc, ci, indexVars, reachVars, out>>

\* faulty variant: the result set starts with the start coin in it
SelectCallSeeded ==
    /\ pc = "select"
    /\ iter # <<>>
    /\ HasTag(Head(iter))
    /\ pc' = "reach"
    /\ coins' = {Head(iter).coin_id}
    /\ stack' = <<Head(iter).coin_id>>
    /\ pending' = {}
    /\ popped' = <<>>
    /\ UNCHANGED <<input, items, iter, ci, indexVars, out>>

\* coins_asserted_by is entered: coins = HashSet::new(), stack = vec![coin_id]
SelectCall ==
    /\ pc = "select"
    /\ iter # <<>>
    /\ HasTag(Head(iter))
    /\ pc' = "reach"
    /\ coins' = {}
    /\ stack' = <<Head(iter).coin_id>>
    /\ pending' = {}
    /\ popped' = <<>>
    /\ UNCHANGED <<input, items, iter, ci, indexVars, out>>

\* faulty variant: the top of the stack is read but not removed
PopPeek ==
    /\ pc = "reach"
    /\ pending = {}
    /\ stack # <<>>
    /\ pending' = coins_directly_asserted_by(stack[Len(stack)], Announcements)
    /\ UNCHANGED <<input, items, pc, iter, ci, indexVars, coins, stack, popped, out>>

\* while let Some(coin_id) = stack.pop(): the inner loop starts on the direct successors
Pop ==
    /\ pc = "reach"
    /\ pending = {}
    /\ stack # <<>>
    /\ stack' = SubSeq(stack, 1, Len(stack) - 1)
    /\ pending' = coins_directly_asserted_by(stack[Len(stack)], Announcements)
    /\ popped' = Append(popped, stack[Len(stack)])
    /\ UNCHANGED <<input, items, pc, iter, ci, indexVars, coins, out>>

\* faulty variant: a new successor is inserted but never pushed
VisitNoPush ==
    /\ pc = "reach"
    /\ \E asserted \in pending :
          /\ pending' = pending \ {asserted}
          /\ coins' = coins \cup {asserted}
          /\ UNCHANGED stack
    /\ UNCHANGED <<input, items, pc, iter, ci, indexVars, popped, out>>

\* faulty variant: a successor is pushed even when it was already in the result set
VisitAlwaysPush ==
    /\ pc = "reach"
    /\ \E asserted \in pending :
          /\ pending' = pending \ {asserted}
          /\ coins' = coins \cup {asserted}
          /\ stack' = Append(stack, asserted)
    /\ UNCHANGED <<input, items, pc, iter, ci, indexVars, popped, out>>

\* one iteration of the inner loop, on any successor the HashSet iterator yields
\* next: if coins.insert(asserted) { stack.push(asserted) }
Visit ==
    /\ pc = "reach"
    /\ \E asserted \in pending :
          /\ pending' = pending \ {asserted}
          /\ coins' = coins \cup {asserted}
          /\ stack' = IF asserted \in coins THEN stack ELSE Append(stack, asserted)
    /\ UNCHANGED <<input, items, pc, iter, ci, indexVars, popped, out>>

\* the stack is empty: coins_asserted_by returns and main prints the line
Return ==
    /\ pc = "reach"
    /\ pending = {}
    /\ stack = <<>>
    /\ out' = Append(out, <<Head(iter).coin_id, coins>>)
    /\ iter' = Tail(iter)
    /\ pc' = "select"
    /\ coins' = {}
    /\ popped' = <<>>
    /\ UNCHANGED <<input, items, ci, indexVars, stack, pending>>

\* Ok(())
SelectDone ==
    /\ pc = "select"
    /\ iter = <<>>
    /\ pc' = "done"
    /\ UNCHANGED <<input, items, iter, ci, indexVars, reachVars, out>>

Next ==
    \/ FlattenItem
    \/ FlattenDone
    \/ ScanPanic
    \/ ScanCreateCoinAnnouncement
    \/ ScanCreatePuzzleAnnouncement
    \/ ScanAssertCoinAnnouncement
    \/ ScanAssertPuzzleAnnouncement
    \/ ScanOther
    \/ ItemDone
    \/ IndexDone
    \/ SelectSkip
    \/ SelectCall
    \/ Pop
    \/ Visit
    \/ Return
    \/ SelectDone

Spec == Init /\ [][Next]_vars

\* main is a sequential program: it takes its next step whenever it has one
FairSpec == Init /\ [][Next]_vars /\ WF_vars(Next)

\* ------------------------------------------------------------------------
\* Vocabulary of the properties
\* ------------------------------------------------------------------------
Start == Head(iter).coin_id

Returning == pc = "reach" /\ stack = <<>> /\ pending = {}

IndexBuilt == pc \in {"select", "reach", "done"}

\* the edge relation: c -> d iff coins_directly_asserted_by(c, index) contains d
Edge(c) == coins_directly_asserted_by(c, Announcements)

\* the coins reachable from start by a path of 1..k edges
RECURSIVE Within(_, _)
Within(start, k) ==
    IF k <= 1 THEN Edge(start)
    ELSE LET near == Within(start, k - 1)
         IN  near \cup UNION {Edge(c) : c \in near}

\* a path of one or more edges can be cut down to one that enters no coin
\* twice, and there are at most Len(items) coins
ReachableFrom(start) == Within(start, Len(items))

Count(s, x) == Cardinality({k \in 1..Len(s) : s[k] = x})

RECURSIVE AllRecords(_)
AllRecords(forest) ==
    IF forest = <<>> THEN <<>>
    ELSE <<Head(forest)>> \o AllRecords(Head(forest).children) \o AllRecords(Tail(forest))

TagList(item) == IF Len(item.tags) = 0 THEN <<>> ELSE item.tags[1]

Selected(item) == "settlement_payments" \in Range(TagList(item))

RECURSIVE SelectedCoins(_)
SelectedCoins(s) ==
    IF s = <<>> THEN <<>>
    ELSE (IF Selected(Head(s)) THEN <<Head(s).coin_id>> ELSE <<>>) \o SelectedCoins(Tail(s))

Malformed(item, condition) ==
    \/ /\ condition.opcode \in {"CREATE_COIN_ANNOUNCEMENT", "CREATE_PUZZLE_ANNOUNCEMENT",
                                "ASSERT_COIN_ANNOUNCEMENT", "ASSERT_PUZZLE_ANNOUNCEMENT"}
       /\ Len(condition.vars) = 0
    \/ /\ condition.opcode = "CREATE_PUZZLE_ANNOUNCEMENT"
       /\ Len(item.puzzle_hash) = 0

HasMalformed(s) ==
    \E k \in 1..Len(s) : \E c \in 1..Len(s[k].conditions) :
        Malformed(s[k], s[k].conditions[c])

\* the conditions the index builder has scanned so far, each with its record
PairsOf(item, n) == [k \in 1..n |-> [item |-> item, condition |-> item.conditions[k]]]

ScannedPairs ==
    LET done == IF pc = "flatten" THEN 0
                ELSE IF pc \in {"index", "failed"} THEN Len(items) - Len(iter)
                ELSE Len(items)
    IN  Flat([k \in 1..done |-> PairsOf(items[k], Len(items[k].conditions))])
        \o (IF pc \in {"index", "failed"} /\ iter # <<>>
            THEN PairsOf(Head(iter), ci - 1) ELSE <<>>)

ScannedOf(sp, op) == {k \in 1..Len(sp) : sp[k].condition.opcode = op}

SourceOf(pair) ==
    IF pair.condition.opcode = "CREATE_COIN_ANNOUNCEMENT"
    THEN pair.item.coin_id ELSE pair.item.puzzle_hash[1]

IdOf(pair) == <<SourceOf(pair)>> \o pair.condition.vars[1]

Latest(S) == CHOOSE k \in S : \A j \in S : j <= k

\* the creation map holds, under every identifier some scanned creation of
\* kind `op` yields, the creation of the latest such condition, and nothing else
LastWriteWins(sp, map, op) ==
    LET made == ScannedOf(sp, op)
    IN  /\ DOMAIN map = {IdOf(sp[k]) : k \in made}
        /\ \A id \in DOMAIN map :
              LET p == sp[Latest({k \in made : IdOf(sp[k]) = id})]
              IN  /\ map[id].coin_id = p.item.coin_id
                  /\ map[id].message = p.condition.vars[1]
                  /\ map[id].announcement_id = id

\* the assertion list holds one entry per scanned assertion of kind `op`, in scan order
InScanOrder(sp, list, op) ==
    LET idx == SetToSeq(ScannedOf(sp, op))
    IN  list = [k \in 1..Len(idx) |->
                  [coin_id |-> sp[idx[k]].item.coin_id,
                   announcement_id |-> sp[idx[k]].condition.vars[1]]]

SourcedFrom(c) ==
    {create_coin_announcements[id].announcement_id :
        id \in {x \in DOMAIN create_coin_announcements :
                   create_coin_announcements[x].coin_id = c}}

PuzzleSourcedFrom(c) ==
    {create_puzzle_announcements[id].announcement_id :
        id \in {x \in DOMAIN create_puzzle_announcements :
                   create_puzzle_announcements[x].coin_id = c}}

AssertsCoin(b, id) ==
    \E k \in 1..Len(assert_coin_announcements) :
        /\ assert_coin_announcements[k].coin_id = b
        /\ assert_coin_announcements[k].announcement_id = id

AssertsPuzzle(b, id) ==
    \E k \in 1..Len(assert_puzzle_announcements) :
        /\ assert_puzzle_announcements[k].coin_id = b
        /\ assert_puzzle_announcements[k].announcement_id = id

CoinIds == {items[k].coin_id : k \in 1..Len(items)}

TwoCycle(a, b) ==
    /\ a # b
    /\ Edge(a) = {b}
    /\ Edge(b) = {a}
    /\ \A c \in CoinIds \ {a, b} : Edge(c) = {}

\* ------------------------------------------------------------------------
\* Properties
\* ------------------------------------------------------------------------

\* C1: when coins_asserted_by returns, its result is exactly the set of coins
\* reachable from the start coin by a path of one or more edges; the start coin
\* is in it exactly when it lies on a cycle; this holds whatever order the
\* successors were iterated in.
C1_ExactClosure ==
    /\ Returning =>
          /\ coins = ReachableFrom(Start)
          /\ Start \in coins <=> \E c \in {Start} \cup ReachableFrom(Start) : Start \in Edge(c)

C1_Witness ==
    /\ Returning
    /\ Start \in coins
    /\ Cardinality(coins) = 3
    /\ \E c \in coins : Cardinality(Edge(c)) = 2

\* C2 (as stated): on a two-coin cycle A -> B -> A with no other edge,
\* coins_asserted_by(A) returns exactly {B}.
C2_Original ==
    Returning => \A b \in CoinIds : TwoCycle(Start, b) => coins = {b}

\* C2 (amended): on a two-coin cycle A -> B -> A with no other edge,
\* coins_asserted_by(A) terminates and returns exactly {A, B}.
C2_TwoCycleResult ==
    Returning => \A b \in CoinIds : TwoCycle(Start, b) => coins = {Start, b}

C2_Witness ==
    /\ Returning
    /\ \E b \in CoinIds : TwoCycle(Start, b)

\* C3: every call of coins_asserted_by, on every index (cycles and self-loops
\* included), reaches an empty stack and returns.
C3_Terminates == (pc = "reach") ~> (pc # "reach")

C3_Witness ==
    /\ Returning
    /\ Start \in Edge(Start)
    /\ \E c \in coins \ {Start} : Start \in Edge(c) /\ c \in Edge(Start)

\* C4: once flattening is over, items holds every record of the input forest,
\* at any depth, exactly once, its length is the number of records of the
\* forest, and every record precedes its children.
C4_FlattenComplete ==
    pc # "flatten" =>
       /\ Len(items) = Len(AllRecords(input))
       /\ \A r \in Range(AllRecords(input)) : Count(items, r) = 1
       /\ \A k \in 1..Len(items) : \A c \in Range(items[k].children) :
             \E j \in (k + 1)..Len(items) : items[j] = c

\* C5: if a scanned record carries a CreatePuzzleAnnouncement without a puzzle
\* hash, or an announcement condition with an empty payload, the run never
\* gets past the index builder and prints nothing; a failed run has printed
\* nothing.
C5_MalformedFails ==
    /\ (pc # "flatten" /\ HasMalformed(items)) => (pc \in {"index", "failed"} /\ out = <<>>)
    /\ pc = "failed" => (out = <<>> /\ HasMalformed(items))
    /\ (pc = "index" /\ iter = <<>>) => ~HasMalformed(items)

C5_Witness ==
    /\ pc = "failed"
    /\ Len(Head(iter).puzzle_hash) = 0
    /\ Head(iter).conditions[ci].opcode = "CREATE_PUZZLE_ANNOUNCEMENT"
    /\ Len(Head(iter).conditions[ci].vars) = 1
    /\ DOMAIN create_puzzle_announcements # {}

\* C6: lines are printed only once the index is built; the coins printed so
\* far are the tagged records among those the selector has passed, in order,
\* one line each, and at the end those of the whole flat sequence; every line
\* carries the reachable set of its coin; a reachability computation runs
\* only for a tagged record.
C6_OneResultPerTagged ==
    /\ ~IndexBuilt => (out = <<>> /\ pc # "reach")
    /\ IndexBuilt =>
          [k \in 1..Len(out) |-> out[k][1]] =
              SelectedCoins(SubSeq(items, 1, Len(items) - Len(iter)))
    /\ pc = "done" => Len(out) = Len(SelectedCoins(items))
    /\ pc = "reach" => Selected(Head(iter))
    /\ \A k \in 1..Len(out) : out[k][2] = Within(out[k][1], Len(items))

C6_Witness ==
    /\ pc = "done"
    /\ Len(out) = 2
    /\ Len(items) = 3
    /\ \E k \in 1..Len(items) : items[k].tags = Some(<<"other">>)
    /\ Selected(items[Len(items)])

\* C7: a coin-scoped creation from A whose identifier B asserts makes B a
\* direct successor of A; A is a direct successor of B only if the index holds
\* a creation sourced from B whose identifier A asserts; a coin without a
\* creation has no direct successor and an empty reachable set.
C7_DirectedEdges ==
    /\ \A id \in DOMAIN create_coin_announcements :
          \A k \in 1..Len(assert_coin_announcements) :
             assert_coin_announcements[k].announcement_id =
                  create_coin_announcements[id].announcement_id
             => assert_coin_announcements[k].coin_id
                   \in Edge(create_coin_announcements[id].coin_id)
    /\ \A a \in CoinIds : \A b \in CoinIds :
          a \in Edge(b) =>
             \/ \E id \in SourcedFrom(b) : AssertsCoin(a, id)
             \/ \E id \in PuzzleSourcedFrom(b) : AssertsPuzzle(a, id)
    /\ \A c \in CoinIds :
          (SourcedFrom(c) = {} /\ PuzzleSourcedFrom(c) = {}) => Edge(c) = {}
    /\ (pc = "reach" /\ SourcedFrom(Start) = {} /\ PuzzleSourcedFrom(Start) = {})
          => coins = {}

C7_Witness ==
    /\ pc = "done"
    /\ \E a \in CoinIds : \E b \in CoinIds \ {a} :
          /\ \E id \in SourcedFrom(a) : AssertsCoin(b, id)
          /\ b \in Edge(a)
          /\ a \notin Edge(b)
          /\ SourcedFrom(b) # {}
    /\ \E k \in 1..Len(out) : out[k][2] = {} /\ SourcedFrom(out[k][1]) = {}

\* C8 (as stated): during a call no coin is popped and expanded twice.
C8_Original ==
    pc = "reach" => \A i \in 1..Len(popped) : \A j \in 1..Len(popped) :
                       i # j => popped[i] # popped[j]

\* C8 (amended): during a call, the first coin popped is the start coin; every
\* later pop is of a coin of the result set, and no coin is popped twice after
\* the first pop.  So every coin but the start coin is expanded at most once,
\* and the start coin at most twice, the second time only when it lies on a
\* cycle.
C8_ExpandedOnceAfterInsert ==
    pc = "reach" =>
       /\ popped # <<>> => popped[1] = Start
       /\ \A i \in 2..Len(popped) :
             /\ popped[i] \in coins
             /\ \A j \in 2..Len(popped) : i # j => popped[i] # popped[j]
       /\ \A c \in CoinIds : Count(popped, c) <= (IF c = Start THEN 2 ELSE 1)
       /\ Count(popped, Start) = 2 => Start \in ReachableFrom(Start)

C8_Witness ==
    /\ Returning
    /\ Count(popped, Start) = 2
    /\ Len(popped) = 4

\* C9: each creation map holds one entry per identifier, the one written by
\* the latest scanned creation condition yielding that identifier, and the
\* assertion lists hold the scanned assertions in scan order: an insertion
\* changes nothing else.
C9_LastWriteWins ==
    LET sp == ScannedPairs
    IN  /\ LastWriteWins(sp, create_coin_announcements, "CREATE_COIN_ANNOUNCEMENT")
        /\ LastWriteWins(sp, create_puzzle_announcements, "CREATE_PUZZLE_ANNOUNCEMENT")
        /\ InScanOrder(sp, assert_coin_announcements, "ASSERT_COIN_ANNOUNCEMENT")
        /\ InScanOrder(sp, assert_puzzle_announcements, "ASSERT_PUZZLE_ANNOUNCEMENT")

C9_Witness ==
    LET sp == ScannedPairs
    IN  /\ pc = "index"
        /\ Len(assert_puzzle_announcements) = 1
        /\ \E j \in ScannedOf(sp, "CREATE_PUZZLE_ANNOUNCEMENT") :
           \E k \in ScannedOf(sp, "CREATE_PUZZLE_ANNOUNCEMENT") :
              /\ j < k
              /\ assert_puzzle_announcements[1].coin_id = sp[j].item.coin_id
              /\ IdOf(sp[j]) = IdOf(sp[k])
              /\ sp[j].item.coin_id # sp[k].item.coin_id
              /\ create_puzzle_announcements[IdOf(sp[k])].coin_id = sp[k].item.coin_id

\* C10: on the built index, every scanned record R with puzzle hash P that
\* creates a puzzle announcement with first message M has, among its direct
\* successors, every scanned record that asserts the puzzle announcement
\* hash(P || M).
C10_PuzzleEdgesComplete ==
    IndexBuilt =>
       LET sp == ScannedPairs
       IN  \A r \in ScannedOf(sp, "CREATE_PUZZLE_ANNOUNCEMENT") :
           \A b \in ScannedOf(sp, "ASSERT_PUZZLE_ANNOUNCEMENT") :
              sp[b].condition.vars[1] = IdOf(sp[r])
              => sp[b].item.coin_id \in Edge(sp[r].item.coin_id)

====
